---- MODULE Spec2Model ----
(***************************************************************************)
(* Proximal operators of a2dr (a2dr/proximal/norm.py): the five public     *)
(* facades prox_norm1, prox_norm2, prox_norm_inf, prox_norm_nuc and        *)
(* prox_group_lasso, their base operators, and the composition transform   *)
(* prox_scale they delegate to.                                            *)
(*                                                                         *)
(* Numbers are exact rationals <<num, den>> (den > 0, lowest terms), so    *)
(* the model states the real-number semantics of the numpy expressions;    *)
(* floating-point rounding is outside the model.  A container is a record  *)
(* [rep, shape, data] with data the entries in row-major order.            *)
(***************************************************************************)
EXTENDS Integers, Sequences, FiniteSets, TLC

\* ------------------------------------------------------------------ bounds
\* entries of the vector inputs are k/2 with |k| <= MaxNum
MaxNum == 6
\* vector inputs have 1..MaxLen entries
MaxLen == 2
\* matrix inputs have 1..MaxRows rows and 1..MaxCols columns
MaxRows == 2
MaxCols == 2

\* --------------------------------------------------------------- rationals
RECURSIVE GCD(_, _)
GCD(x, y) == IF y = 0 THEN x ELSE GCD(y, x % y)

IAbs(n) == IF n < 0 THEN -n ELSE n

\* the rational n/d (d # 0) in lowest terms with a positive denominator
Rat(n, d) ==
    LET g == GCD(IAbs(n), IAbs(d))
        s == IF d < 0 THEN -1 ELSE 1
    IN  <<(s * n) \div g, (s * d) \div g>>

RInt(n) == <<n, 1>>
R0 == RInt(0)
R1 == RInt(1)
RAdd(p, q) == Rat(p[1] * q[2] + q[1] * p[2], p[2] * q[2])
RNeg(p) == <<-p[1], p[2]>>
RSub(p, q) == RAdd(p, RNeg(q))
RMul(p, q) == Rat(p[1] * q[1], p[2] * q[2])
RDiv(p, q) == Rat(p[1] * q[2], p[2] * q[1])
RLe(p, q) == p[1] * q[2] <= q[1] * p[2]
RLt(p, q) == p[1] * q[2] < q[1] * p[2]
RMax(p, q) == IF RLe(p, q) THEN q ELSE p
RAbs(p) == <<IAbs(p[1]), p[2]>>
RSign(p) == IF p[1] > 0 THEN 1 ELSE IF p[1] < 0 THEN -1 ELSE 0

IsSquareInt(n) == \E k \in 0..n : k * k = n
ISqrt(n) == CHOOSE k \in 0..n : k * k = n
\* a rational in lowest terms is a square iff numerator and denominator are
IsSquare(p) == p[1] >= 0 /\ IsSquareInt(p[1]) /\ IsSquareInt(p[2])
RSqrt(p) == <<ISqrt(p[1]), ISqrt(p[2])>>

RECURSIVE SumSeq(_)
SumSeq(s) == IF s = <<>> THEN R0 ELSE RAdd(Head(s), SumSeq(Tail(s)))

\* -------------------------------------------------------------- containers
Dense(shape, data) == [rep |-> "dense", shape |-> shape, data |-> data]
Sparse(shape, data) == [rep |-> "sparse", shape |-> shape, data |-> data]
NoVal == [rep |-> "none", shape |-> <<>>, data |-> <<>>]

\* the outcome of a call: a returned container or a raised exception
Ok(c) == [kind |-> "ok", val |-> c, err |-> "none"]
Err(e) == [kind |-> "error", val |-> NoVal, err |-> e]

\* an array with its entries computed
Vec(f) == f \o <<>>

issparse(v) == v.rep = "sparse"
ndim(v) == Len(v.shape)
IsZero(v) == \A i \in 1..Len(v.data) : v.data[i] = R0
SumSq(v) == SumSeq([i \in 1..Len(v.data) |-> RMul(v.data[i], v.data[i])])
Norm1(v) == SumSeq([i \in 1..Len(v.data) |-> RAbs(v.data[i])])
\* the input set keeps to containers whose 2-norm is rational
NormExact(v) == IsSquare(SumSq(v))
\* norm(v, 2) and norm(v, 'fro'): the root of the sum of squares
norm(v) == RSqrt(SumSq(v))

\* ------------------------------------------------------- base operators
\* one entry of max_elemwise(v - t, 0) - max_elemwise(-v - t, 0)
soft(x, t) == RSub(RMax(RSub(x, t), R0), RMax(RSub(RNeg(x), t), R0))
soft_swapped(x, t) == RSub(RMax(RSub(t, x), R0), RMax(RSub(t, RNeg(x)), R0))

\* prox_norm1_base with v - t and -v - t subtracting in the wrong order
prox_norm1_base_swapped(v, t) ==
    IF issparse(v)
    THEN IF t # R0 THEN Err("NotImplementedError")
         ELSE Ok([v EXCEPT !.data = Vec([i \in 1..Len(v.data) |-> soft_swapped(v.data[i], t)])])
    ELSE Ok([v EXCEPT !.data = Vec([i \in 1..Len(v.data) |-> soft_swapped(v.data[i], t)])])

\* max_elemwise(v - t, 0) - max_elemwise(-v - t, 0).  On a sparse v the
\* expression v - t is scipy's subtraction of a scalar from a sparse matrix,
\* which raises NotImplementedError for every nonzero scalar.
prox_norm1_base(v, t) ==
    IF issparse(v)
    THEN IF t # R0 THEN Err("NotImplementedError")
         ELSE Ok([v EXCEPT !.data = Vec([i \in 1..Len(v.data) |-> soft(v.data[i], t)])])
    ELSE Ok([v EXCEPT !.data = Vec([i \in 1..Len(v.data) |-> soft(v.data[i], t)])])

\* zeros(v.shape): sparse.csr_matrix for a sparse v, np.zeros for a dense one
zeros(v) ==
    IF issparse(v)
    THEN Sparse(v.shape, Vec([i \in 1..Len(v.data) |-> R0]))
    ELSE Dense(v.shape, Vec([i \in 1..Len(v.data) |-> R0]))

\* prox_norm2_base without the clamp of the scale factor at zero
prox_norm2_base_noclamp(v, t) ==
    LET v_norm == norm(v)
    IN  IF v_norm = R0
        THEN Ok(zeros(v))
        ELSE Ok([v EXCEPT !.data = Vec([i \in 1..Len(v.data) |->
                    RMul(RSub(R1, RDiv(t, v_norm)), v.data[i])])])

\* zeros(v.shape) when the norm is 0, else maximum(1 - t/v_norm, 0) * v;
\* a scalar times a sparse matrix is a sparse matrix
prox_norm2_base(v, t) ==
    LET v_norm == norm(v)
    IN  IF v_norm = R0
        THEN Ok(zeros(v))
        ELSE Ok([v EXCEPT !.data = Vec([i \in 1..Len(v.data) |->
                    RMul(RMax(RSub(R1, RDiv(t, v_norm)), R0), v.data[i])])])

\* ---- the L1-ball projection (a2dr/proximal/projection.py, not in src/)
RECURSIVE InsertDesc(_, _)
InsertDesc(x, s) ==
    IF s = <<>> THEN <<x>>
    ELSE IF RLe(Head(s), x) THEN <<x>> \o s
    ELSE <<Head(s)>> \o InsertDesc(x, Tail(s))

RECURSIVE SortDesc(_)
SortDesc(s) == IF s = <<>> THEN <<>> ELSE InsertDesc(Head(s), SortDesc(Tail(s)))

\* the sorted-threshold algorithm: sort |x| descending, take the largest
\* index rho whose entry exceeds (cumulative sum - 1)/rho, clip by that
\* threshold; a point already in the ball is returned as it is
proj_l1(x) ==
    IF RLe(Norm1(x), R1) THEN x
    ELSE LET n == Len(x.data)
             u == SortDesc(Vec([i \in 1..n |-> RAbs(x.data[i])]))
             css(j) == SumSeq(SubSeq(u, 1, j))
             thr(j) == RDiv(RSub(css(j), R1), RInt(j))
             pos(j) == RLt(thr(j), u[j])
             rho == CHOOSE j \in 1..n : pos(j) /\ \A k \in (j + 1)..n : ~pos(k)
             theta == thr(rho)
         IN  [x EXCEPT !.data = Vec([i \in 1..n |->
                 RMul(RInt(RSign(x.data[i])), RMax(RSub(RAbs(x.data[i]), theta), R0))])]

\* prox_norm_inf_base with the projection left unscaled: v - proj_l1(v/t)
prox_norm_inf_base_unscaled(v, t) ==
    LET p == proj_l1([v EXCEPT !.data = Vec([i \in 1..Len(v.data) |-> RDiv(v.data[i], t)])])
    IN  Ok([v EXCEPT !.data = Vec([i \in 1..Len(v.data) |-> RSub(v.data[i], p.data[i])])])

\* v - t * proj_l1(v/t); no test of the representation of v
prox_norm_inf_base(v, t) ==
    LET p == proj_l1([v EXCEPT !.data = Vec([i \in 1..Len(v.data) |-> RDiv(v.data[i], t)])])
    IN  Ok([v EXCEPT !.data = Vec([i \in 1..Len(v.data) |->
               RSub(v.data[i], RMul(t, p.data[i]))])])

\* ---- nuclear norm
rows(B) == B.shape[1]
cols(B) == B.shape[2]
At(B, i, j) == B.data[(i - 1) * cols(B) + j]
\* at most one nonzero entry in every row and every column: the matrices
\* whose singular value decomposition is rational
Monomial(B) ==
    /\ ndim(B) = 2
    /\ \A i \in 1..rows(B) : \A j, k \in 1..cols(B) :
          (At(B, i, j) # R0 /\ At(B, i, k) # R0) => j = k
    /\ \A j \in 1..cols(B) : \A i, k \in 1..rows(B) :
          (At(B, i, j) # R0 /\ At(B, k, j) # R0) => i = k

\* np.linalg.svd of a monomial matrix: one triple (s, u, vt) per nonzero
\* entry B[i,j], s = |B[i,j]|, u = e_i, vt = sign(B[i,j]) e_j; the remaining
\* singular values are 0
svd(B) ==
    {[s |-> RAbs(At(B, i, j)), u |-> i, v |-> j, sgn |-> RInt(RSign(At(B, i, j)))] :
        <<i, j>> \in {ij \in (1..rows(B)) \X (1..cols(B)) : At(B, ij[1], ij[2]) # R0}}

\* U.dot(diag(maximum(s - t, 0))).dot(Vt); svd is numpy's dense routine, which
\* raises LinAlgError on a scipy sparse matrix and on a 1-d array
prox_norm_nuc_base(B, t) ==
    IF issparse(B) \/ ndim(B) # 2 THEN Err("LinAlgError")
    ELSE LET USVt == svd(B)
             s_new(x) == RMax(RSub(x.s, t), R0)
             entry(i, j) ==
                 IF \E x \in USVt : x.u = i /\ x.v = j
                 THEN LET x == CHOOSE y \in USVt : y.u = i /\ y.v = j
                      IN  RMul(x.sgn, s_new(x))
                 ELSE R0
         IN  Ok(Dense(B.shape, Vec([k \in 1..Len(B.data) |->
                 entry(((k - 1) \div cols(B)) + 1, ((k - 1) % cols(B)) + 1)])))

\* ---- the composition transform prox_scale (a2dr/proximal/composition.py,
\* ---- not in src/): scale a is a sequence of one entry (a scalar) or of one
\* ---- entry per coordinate; offset b, lin_term c, quad_term d are scalars
\* the validation without the test of the quadratic term
scale_valid_no_d(t, a, d) ==
    /\ RLt(R0, t)
    /\ \A i \in 1..Len(a) : a[i] # R0

\* reject t <= 0, a scale containing a zero, d < 0
scale_valid(t, a, d) ==
    /\ RLt(R0, t)
    /\ \A i \in 1..Len(a) : a[i] # R0
    /\ RLe(R0, d)


\* s = 1/(1 + 2d)
scale_s(d) == RDiv(R1, RAdd(R1, RMul(RInt(2), d)))
\* a*v' - b with v' = (v - t*c)/(1 + 2d)
scale_arg(v, t, a, b, c, d) ==
    [v EXCEPT !.data = Vec([i \in 1..Len(v.data) |->
        RSub(RMul(a[1], RMul(RSub(v.data[i], RMul(t, c)), scale_s(d))), b)])]
\* t*a^2*s
scale_step(t, a, d) == RMul(t, RMul(RMul(a[1], a[1]), scale_s(d)))
\* x = (P_f(...) + b)/a, then the rescale by s; a failure of the base
\* operator is passed on unchanged
scale_back(r, a, b, d) ==
    IF r.kind = "error" THEN r
    ELSE Ok([r.val EXCEPT !.data = Vec([i \in 1..Len(r.val.data) |->
                RMul(scale_s(d), RDiv(RAdd(r.val.data[i], b), a[1]))])])

\* ---- group lasso
\* prox_scale(prox_norm2_base, *args, **kwargs)(v, t)
prox_norm2(v, t, a, b, c, d) ==
    IF ~scale_valid(t, a, d) THEN Err("ValidationError")
    ELSE scale_back(prox_norm2_base(scale_arg(v, t, a, b, c, d), scale_step(t, a, d)), a, b, d)

\* B[:,j]: a 1-d array of a dense matrix, an m x 1 matrix of a sparse one
column(B, j) ==
    IF issparse(B)
    THEN Sparse(<<rows(B), 1>>, Vec([i \in 1..rows(B) |-> At(B, i, j)]))
    ELSE Dense(<<rows(B)>>, Vec([i \in 1..rows(B) |-> At(B, i, j)]))

\* np.vstack of n 1-d arrays of length m: the n x m matrix with them as rows
vstack(xs) ==
    LET n == Len(xs)
        m == Len(xs[1].data)
    IN  Dense(<<n, m>>, Vec([k \in 1..(n * m) |-> xs[((k - 1) \div m) + 1].data[((k - 1) % m) + 1]]))

\* M.T
transpose(M) ==
    LET m == cols(M)
        n == rows(M)
    IN  [M EXCEPT !.shape = <<m, n>>,
                  !.data = Vec([k \in 1..(m * n) |-> At(M, ((k - 1) % n) + 1, ((k - 1) \div n) + 1)])]

\* sparse.hstack of n sparse m x 1 matrices: the m x n matrix with them as columns
hstack(xs) ==
    LET n == Len(xs)
        m == xs[1].shape[1]
    IN  Sparse(<<m, n>>, Vec([k \in 1..(m * n) |-> xs[((k - 1) % n) + 1].data[((k - 1) \div n) + 1]]))

\* prox_group_lasso_base without the transpose of the stacked columns
prox_group_lasso_base_no_T(B, t) ==
    IF ndim(B) # 2 THEN Err("IndexError")
    ELSE LET parts == Vec([j \in 1..cols(B) |-> prox_norm2(column(B, j), t, <<R1>>, R0, R0, R0)])
         IN  IF \E j \in 1..cols(B) : parts[j].kind = "error"
             THEN parts[CHOOSE j \in 1..cols(B) :
                          parts[j].kind = "error" /\ \A k \in 1..(j - 1) : parts[k].kind = "ok"]
             ELSE IF issparse(B)
                  THEN Ok(hstack(Vec([j \in 1..cols(B) |-> parts[j].val])))
                  ELSE Ok(vstack(Vec([j \in 1..cols(B) |-> parts[j].val])))

\* hstack / vstack(...).T of prox_norm2(B[:,j], t) for j in range(B.shape[1]);
\* the first column call that raises ends the call
prox_group_lasso_base(B, t) ==
    IF ndim(B) # 2 THEN Err("IndexError")
    ELSE LET parts == Vec([j \in 1..cols(B) |-> prox_norm2(column(B, j), t, <<R1>>, R0, R0, R0)])
         IN  IF \E j \in 1..cols(B) : parts[j].kind = "error"
             THEN parts[CHOOSE j \in 1..cols(B) :
                          parts[j].kind = "error" /\ \A k \in 1..(j - 1) : parts[k].kind = "ok"]
             ELSE IF issparse(B)
                  THEN Ok(hstack(Vec([j \in 1..cols(B) |-> parts[j].val])))
                  ELSE Ok(transpose(vstack(Vec([j \in 1..cols(B) |-> parts[j].val]))))

\* the base operator a direct call names
apply_base(op, v, t) ==
    CASE op = "prox_norm1_base" -> prox_norm1_base(v, t)
      [] op = "prox_norm2_base" -> prox_norm2_base(v, t)
      [] op = "prox_norm_inf_base" -> prox_norm_inf_base(v, t)
      [] op = "prox_norm_nuc_base" -> prox_norm_nuc_base(v, t)
      [] op = "prox_group_lasso_base" -> prox_group_lasso_base(v, t)

\* the facades with prox_norm_inf wrapping the L1 base operator
facade_base_mixed(op) ==
    CASE op = "prox_norm1" -> "prox_norm1_base"
      [] op = "prox_norm2" -> "prox_norm2_base"
      [] op = "prox_norm_inf" -> "prox_norm1_base"
      [] op = "prox_norm_nuc" -> "prox_norm_nuc_base"
      [] op = "prox_group_lasso" -> "prox_group_lasso_base"

\* the base operator each public facade hands to prox_scale
facade_base(op) ==
    CASE op = "prox_norm1" -> "prox_norm1_base"
      [] op = "prox_norm2" -> "prox_norm2_base"
      [] op = "prox_norm_inf" -> "prox_norm_inf_base"
      [] op = "prox_norm_nuc" -> "prox_norm_nuc_base"
      [] op = "prox_group_lasso" -> "prox_group_lasso_base"

\* prox_scale(prox, scale=a, offset=b, lin_term=c, quad_term=d)(v, t), as one
\* evaluation: validate, rescale, call the base operator, map back
prox_scale(prox, v, t, a, b, c, d) ==
    IF ~scale_valid(t, a, d) THEN Err("ValidationError")
    ELSE scale_back(apply_base(prox, scale_arg(v, t, a, b, c, d), scale_step(t, a, d)), a, b, d)

\* ------------------------------------------------------------------ state
VARIABLES
    heap,   \* the caller's containers, passed to the operators by reference
    pc,     \* per thread: where its call stands
    call,   \* per thread: the operator called and its arguments
    tmp,    \* per thread: the locals v_new, t_new and the base operator's outcome
    res,    \* per thread: the outcome of the call
    nbase   \* per thread: base operator invocations made by the call

vars == <<heap, pc, call, tmp, res, nbase>>

NThreads == 2
Threads == 1..NThreads
Refs == {1, 2}

NoOutcome == [kind |-> "none", val |-> NoVal, err |-> "none"]
NoCall == [op |-> "none", ref |-> 1, t |-> R0, a |-> <<R1>>, b |-> R0, c |-> R0, d |-> R0]
NoTmp == [v_new |-> NoVal, t_new |-> R0, r |-> NoOutcome]

BaseOps == {"prox_norm1_base", "prox_norm2_base", "prox_norm_inf_base",
            "prox_norm_nuc_base", "prox_group_lasso_base"}
FacadeOps == {"prox_norm1", "prox_norm2", "prox_norm_inf", "prox_norm_nuc", "prox_group_lasso"}

\* ----------------------------------------------------------------- inputs
Halves == {Rat(k, 2) : k \in (-MaxNum)..MaxNum}
Steps == {Rat(1, 2), R1, RInt(2)}
DenseVecs(vals) ==
    UNION {{Dense(<<n>>, d) : d \in [1..n -> vals]} : n \in 1..MaxLen}
\* the vectors the specification names: [3, -1, 0.5] and [3, 4]
Scenarios == {Dense(<<3>>, <<RInt(3), RInt(-1), Rat(1, 2)>>),
              Dense(<<2>>, <<RInt(3), RInt(4)>>)}
VecInputs == DenseVecs(Halves) \cup Scenarios
           \cup {Sparse(<<1, Len(v.data)>>, v.data) : v \in Scenarios}

\* the calls the model can evaluate: rational norms, a vector for the
\* projection, a monomial matrix for the decomposition, a matrix whose
\* columns have rational norms for the group lasso
Evaluable(op, v) ==
    CASE op = "prox_norm1_base" -> TRUE
      [] op = "prox_norm2_base" -> NormExact(v)
      [] op = "prox_norm_inf_base" -> ndim(v) = 1 \/ (issparse(v) /\ rows(v) = 1)
      [] op = "prox_norm_nuc_base" -> issparse(v) \/ ndim(v) = 1 \/ Monomial(v)
      [] op = "prox_group_lasso_base" ->
            ndim(v) = 2 /\ \A j \in 1..cols(v) : NormExact(column(v, j))

\* ---------------------------------------------------------------- actions
\* a direct call whose base operator writes its result into its argument
BaseCall_inplace(th, op, ref, t) ==
    /\ pc[th] = "idle"
    /\ Evaluable(op, heap[ref])
    /\ pc' = [pc EXCEPT ![th] = "done"]
    /\ call' = [call EXCEPT ![th] = [NoCall EXCEPT !.op = op, !.ref = ref, !.t = t]]
    /\ res' = [res EXCEPT ![th] = apply_base(op, heap[ref], t)]
    /\ nbase' = [nbase EXCEPT ![th] = 1]
    /\ heap' = IF apply_base(op, heap[ref], t).kind = "ok"
               THEN [heap EXCEPT ![ref] = apply_base(op, heap[ref], t).val]
               ELSE heap
    /\ UNCHANGED tmp

\* a direct call of a base operator on the container at ref
BaseCall(th, op, ref, t) ==
    /\ pc[th] = "idle"
    /\ Evaluable(op, heap[ref])
    /\ pc' = [pc EXCEPT ![th] = "done"]
    /\ call' = [call EXCEPT ![th] = [NoCall EXCEPT !.op = op, !.ref = ref, !.t = t]]
    /\ res' = [res EXCEPT ![th] = apply_base(op, heap[ref], t)]
    /\ nbase' = [nbase EXCEPT ![th] = 1]
    /\ UNCHANGED <<heap, tmp>>

\* a call of a public facade: prox_scale(prox_*_base, *args, **kwargs)(v, t)
Call(th, op, ref, t, a, b, c, d) ==
    /\ pc[th] = "idle"
    /\ scale_valid(t, a, d) =>
          Evaluable(facade_base(op), scale_arg(heap[ref], t, a, b, c, d))
    /\ pc' = [pc EXCEPT ![th] = "called"]
    /\ call' = [call EXCEPT ![th] =
                  [op |-> op, ref |-> ref, t |-> t, a |-> a, b |-> b, c |-> c, d |-> d]]
    /\ nbase' = [nbase EXCEPT ![th] = 0]
    /\ UNCHANGED <<heap, tmp, res>>

\* the precondition checks of the composition transform
Validate(th) ==
    /\ pc[th] = "called"
    /\ IF scale_valid(call[th].t, call[th].a, call[th].d)
       THEN /\ pc' = [pc EXCEPT ![th] = "validated"]
            /\ UNCHANGED res
       ELSE /\ pc' = [pc EXCEPT ![th] = "done"]
            /\ res' = [res EXCEPT ![th] = Err("ValidationError")]
    /\ UNCHANGED <<heap, call, tmp, nbase>>

\* the rescaled point and step are computed from the caller's container
Rescale(th) ==
    /\ pc[th] = "validated"
    /\ tmp' = [tmp EXCEPT ![th] =
                 [v_new |-> scale_arg(heap[call[th].ref], call[th].t, call[th].a,
                                      call[th].b, call[th].c, call[th].d),
                  t_new |-> scale_step(call[th].t, call[th].a, call[th].d),
                  r |-> NoOutcome]]
    /\ pc' = [pc EXCEPT ![th] = "rescaled"]
    /\ UNCHANGED <<heap, call, res, nbase>>

\* the wrapped base operator runs on the rescaled point
Base(th) ==
    /\ pc[th] = "rescaled"
    /\ tmp' = [tmp EXCEPT ![th].r =
                 apply_base(facade_base(call[th].op), tmp[th].v_new, tmp[th].t_new)]
    /\ nbase' = [nbase EXCEPT ![th] = nbase[th] + 1]
    /\ pc' = [pc EXCEPT ![th] = "based"]
    /\ UNCHANGED <<heap, call, res>>

\* the base operator's outcome is mapped back and returned
Return(th) ==
    /\ pc[th] = "based"
    /\ res' = [res EXCEPT ![th] = scale_back(tmp[th].r, call[th].a, call[th].b, call[th].d)]
    /\ pc' = [pc EXCEPT ![th] = "done"]
    /\ UNCHANGED <<heap, call, tmp, nbase>>

\* the caller drops the outcome; the thread is free for the next call
Reset(th) ==
    /\ pc[th] = "done"
    /\ pc' = [pc EXCEPT ![th] = "idle"]
    /\ call' = [call EXCEPT ![th] = NoCall]
    /\ tmp' = [tmp EXCEPT ![th] = NoTmp]
    /\ res' = [res EXCEPT ![th] = NoOutcome]
    /\ nbase' = [nbase EXCEPT ![th] = 0]
    /\ UNCHANGED heap

InitThreads ==
    /\ pc = [th \in Threads |-> "idle"]
    /\ call = [th \in Threads |-> NoCall]
    /\ tmp = [th \in Threads |-> NoTmp]
    /\ res = [th \in Threads |-> NoOutcome]
    /\ nbase = [th \in Threads |-> 0]

\* ---- direct calls of the vector base operators by one thread
InitVec ==
    /\ \E v \in VecInputs : heap = [r \in Refs |-> v]
    /\ InitThreads

NextVec ==
    \/ \E op \in {"prox_norm1_base", "prox_norm2_base", "prox_norm_inf_base"}, t \in Steps :
          BaseCall(1, op, 1, t)
    \/ Reset(1)

SpecVec == InitVec /\ [][NextVec]_vars

\* ---- direct calls of the matrix base operators by one thread
\* the m x n container of representation rep with the given columns
FromColumns(rep, m, n, cs) ==
    [rep |-> rep, shape |-> <<m, n>>,
     data |-> Vec([k \in 1..(m * n) |-> cs[((k - 1) % n) + 1][((k - 1) \div n) + 1]])]
\* columns of m entries with a rational norm
ExactCols(vals, m) == {c \in [1..m -> vals] : IsSquare(SumSeq(Vec([i \in 1..m |-> RMul(c[i], c[i])])))}
Mats(vals) ==
    UNION {UNION {{FromColumns(rep, m, n, cs) : cs \in [1..n -> ExactCols(vals, m)]} :
                     rep \in {"dense", "sparse"}} :
              <<m, n>> \in (1..MaxRows) \X (1..MaxCols)}
MatVals == {R0, R1, RInt(3), RInt(-4)}
MatInputs == Mats(MatVals)

InitMat ==
    /\ \E B \in MatInputs : heap = [r \in Refs |-> B]
    /\ InitThreads

NextMat ==
    \/ \E op \in {"prox_group_lasso_base", "prox_norm_nuc_base"}, t \in Steps :
          BaseCall(1, op, 1, t)
    \/ Reset(1)

SpecMat == InitMat /\ [][NextMat]_vars

\* ---- facade calls with parameters by one thread
SmallVals == {RInt(-2), R0, RInt(3)}
ParamMats == {Dense(<<1, 1>>, <<RInt(3)>>),
              Dense(<<2, 2>>, <<RInt(3), R0, R0, RInt(-4)>>),
              Sparse(<<2, 2>>, <<RInt(3), R0, R0, RInt(-4)>>),
              Sparse(<<1, 2>>, <<RInt(3), RInt(-4)>>)}
ParamInputs == DenseVecs(SmallVals) \cup Scenarios \cup ParamMats
\* step sizes, valid and not
AllSteps == {RInt(-1), R0, Rat(1, 2), R1}
\* scales: scalars, and a scale per coordinate that contains a zero
Scales == {<<R1>>, <<RInt(2)>>, <<RInt(-1)>>, <<R0>>, <<R1, R0>>}
Offsets == {R0, R1}
LinTerms == {R0, R1}
QuadTerms == {RInt(-1), R0, R1}

InitParam ==
    /\ \E v \in ParamInputs : heap = [r \in Refs |-> v]
    /\ InitThreads

Next ==
    \/ \E op \in FacadeOps, t \in AllSteps, a \in Scales, b \in Offsets,
          c \in LinTerms, d \in QuadTerms : Call(1, op, 1, t, a, b, c, d)
    \/ Validate(1)
    \/ Rescale(1)
    \/ Base(1)
    \/ Return(1)
    \/ Reset(1)

Spec == InitParam /\ [][Next]_vars

\* ---- facade calls with the default parameters by one thread
DefaultVals == {R0, RInt(3)}
DefaultInputs ==
    DenseVecs(SmallVals) \cup Scenarios \cup Mats(DefaultVals) \cup ParamMats
        \cup {Dense(<<2, 2>>, <<RInt(3), R1, RInt(-4), R0>>),
              Sparse(<<2, 2>>, <<RInt(3), R1, RInt(-4), R0>>),
              Sparse(<<1, 3>>, <<RInt(3), RInt(-1), Rat(1, 2)>>)}

InitDefault ==
    /\ \E v \in DefaultInputs : heap = [r \in Refs |-> v]
    /\ InitThreads

NextDefault ==
    \/ \E op \in FacadeOps, t \in Steps : Call(1, op, 1, t, <<R1>>, R0, R0, R0)
    \/ Validate(1)
    \/ Rescale(1)
    \/ Base(1)
    \/ Return(1)
    \/ Reset(1)

SpecDefault == InitDefault /\ [][NextDefault]_vars

\* ---- concurrent calls on shared containers
ConcVecs == {Dense(<<2>>, <<RInt(3), RInt(-4)>>)}
ConcMats == {Sparse(<<2, 2>>, <<RInt(3), R0, R0, RInt(-4)>>)}

InitConc ==
    /\ \E x \in ConcVecs, B \in ConcMats : heap = [r \in Refs |-> IF r = 1 THEN x ELSE B]
    /\ InitThreads

NextConc ==
    \E th \in Threads :
        \/ \E op \in FacadeOps, ref \in Refs : Call(th, op, ref, R1, <<R1>>, R0, R0, R0)
        \/ \E ref \in Refs : BaseCall(th, "prox_norm2_base", ref, R1)
        \/ Validate(th)
        \/ Rescale(th)
        \/ Base(th)
        \/ Return(th)
        \/ Reset(th)

SpecConc == InitConc /\ [][NextConc]_vars

\* ----------------------------------------------------------------- claims
\* a finished direct call of base operator op by thread 1, and its input
DoneBase(op) == pc[1] = "done" /\ call[1].op = op
In1 == heap[call[1].ref]
T1 == call[1].t
Out1 == res[1].val

\* C1 (as stated): for every input v and t > 0, prox_norm1_base(v, t) returns in
\* each coordinate i the value sign(v_i) * max(|v_i| - t, 0).
C1_SoftThreshold ==
    (DoneBase("prox_norm1_base") /\ RLt(R0, T1)) =>
        /\ res[1].kind = "ok"
        /\ Len(Out1.data) = Len(In1.data)
        /\ \A i \in 1..Len(In1.data) :
              Out1.data[i] = RMul(RInt(RSign(In1.data[i])),
                                  RMax(RSub(RAbs(In1.data[i]), T1), R0))

\* C1 on dense input only: the soft-thresholding formula holds coordinate by
\* coordinate.
C1_SoftThresholdDense ==
    (DoneBase("prox_norm1_base") /\ RLt(R0, T1) /\ ~issparse(In1)) =>
        /\ res[1].kind = "ok"
        /\ Out1.shape = In1.shape
        /\ \A i \in 1..Len(In1.data) :
              Out1.data[i] = RMul(RInt(RSign(In1.data[i])),
                                  RMax(RSub(RAbs(In1.data[i]), T1), R0))

\* C2: for every input v and t > 0, prox_norm2_base(v, t) returns the all-zero
\* container of v's shape when ||v|| <= t (the case ||v|| = 0 included, which
\* returns and does not fail), and v * (1 - t/||v||), of norm ||v|| - t, when
\* ||v|| > t.
C2_BlockShrinkage ==
    (DoneBase("prox_norm2_base") /\ RLt(R0, T1)) =>
        /\ res[1].kind = "ok"
        /\ Out1.shape = In1.shape
        /\ Out1.rep = In1.rep
        /\ RLe(SumSq(In1), RMul(T1, T1)) => IsZero(Out1)
        /\ RLt(RMul(T1, T1), SumSq(In1)) =>
              /\ \A i \in 1..Len(In1.data) :
                    RMul(Out1.data[i], norm(In1)) = RMul(In1.data[i], RSub(norm(In1), T1))
              /\ SumSq(Out1) = RMul(RSub(norm(In1), T1), RSub(norm(In1), T1))

\* prox_norm2_base([3, 4], 2) has returned [1.8, 2.4]
C2_Witness ==
    /\ DoneBase("prox_norm2_base")
    /\ In1 = Dense(<<2>>, <<RInt(3), RInt(4)>>)
    /\ T1 = RInt(2)
    /\ res[1] = Ok(Dense(<<2>>, <<Rat(9, 5), Rat(12, 5)>>))

\* the inner product of two sequences of rationals
Dot(x, y) == SumSeq([i \in 1..Len(x) |-> RMul(x[i], y[i])])
\* p is the Euclidean projection of z onto the L1 unit ball: p lies in the
\* ball and (z - p).(y - p) <= 0 at every vertex y = +e_k, -e_k of the ball
IsProjL1(p, z) ==
    /\ RLe(SumSeq([i \in 1..Len(p) |-> RAbs(p[i])]), R1)
    /\ \A k \in 1..Len(p) : \A sg \in {-1, 1} :
          RLe(Dot([i \in 1..Len(p) |-> RSub(z[i], p[i])],
                  [i \in 1..Len(p) |-> RSub(IF i = k THEN RInt(sg) ELSE R0, p[i])]), R0)

\* C9: for every dense vector v and t > 0, prox_norm_inf_base(v, t) is
\* v - t * P(v/t) with P the Euclidean projection onto the L1 unit ball; the
\* result is 0 when ||v||_1 <= t, and otherwise v minus the result has
\* L1 norm exactly t.
C9_DualProjection ==
    (DoneBase("prox_norm_inf_base") /\ RLt(R0, T1) /\ ~issparse(In1)) =>
        /\ res[1].kind = "ok"
        /\ Out1.shape = In1.shape
        /\ IsProjL1([i \in 1..Len(In1.data) |-> RDiv(RSub(In1.data[i], Out1.data[i]), T1)],
                    [i \in 1..Len(In1.data) |-> RDiv(In1.data[i], T1)])
        /\ RLe(Norm1(In1), T1) => IsZero(Out1)
        /\ RLt(T1, Norm1(In1)) =>
              SumSeq([i \in 1..Len(In1.data) |-> RAbs(RSub(In1.data[i], Out1.data[i]))]) = T1

\* prox_norm_inf_base([3, -1, 0.5], 2) has returned [1, 0, 0]: the largest
\* entry is cut down and the others are projected away
C9_Witness ==
    /\ DoneBase("prox_norm_inf_base")
    /\ In1 = Dense(<<3>>, <<RInt(3), RInt(-1), Rat(1, 2)>>)
    /\ T1 = RInt(2)
    /\ res[1].kind = "ok"
    /\ RLt(T1, Norm1(In1))
    /\ ~IsZero(Out1)

\* C6: for every m x n matrix B and t > 0, prox_group_lasso_base(B, t) returns an
\* m x n matrix whose column j is the L2-norm proximal operator of column j of
\* B alone.
C6_ColumnWise ==
    (DoneBase("prox_group_lasso_base") /\ RLt(R0, T1)) =>
        /\ res[1].kind = "ok"
        /\ Out1.shape = In1.shape
        /\ \A j \in 1..cols(In1) :
              column(Out1, j) = prox_norm2_base(column(In1, j), T1).val

\* prox_group_lasso_base([[3, 1], [-4, 0]], 1) has returned [[2.4, 0], [-3.2, 0]]:
\* the first column is shrunk by 4/5 and the second, of norm 1, is zeroed
C6_Witness ==
    /\ DoneBase("prox_group_lasso_base")
    /\ In1 = Dense(<<2, 2>>, <<RInt(3), R1, RInt(-4), R0>>)
    /\ T1 = R1
    /\ res[1] = Ok(Dense(<<2, 2>>, <<Rat(12, 5), R0, Rat(-16, 5), R0>>))

\* a call of a public facade by thread 1
FacadeCall == call[1].op \in FacadeOps
ScaleA == call[1].a
OffsetB == call[1].b
LinC == call[1].c
QuadD == call[1].d
Invalid1 == RLe(T1, R0) \/ (\E i \in 1..Len(ScaleA) : ScaleA[i] = R0) \/ RLt(QuadD, R0)

\* C3: a facade call with t <= 0, with a scale containing a zero or with d < 0
\* ends in a validation failure, raised before any base operator runs; no
\* value is returned.
C3_ValidationFirst ==
    (FacadeCall /\ Invalid1) =>
        /\ nbase[1] = 0
        /\ tmp[1] = NoTmp
        /\ pc[1] \in {"called", "done"}
        /\ pc[1] = "done" => res[1] = Err("ValidationError")

\* prox_group_lasso with quad_term = -1 has ended in the validation failure
C3_Witness ==
    /\ pc[1] = "done"
    /\ call[1].op = "prox_group_lasso"
    /\ QuadD = RInt(-1)
    /\ RLt(R0, T1)
    /\ res[1] = Err("ValidationError")

\* the subgradient xi the result x must have at y = a*x - b for x to minimise
\* t*f(a*x - b) + c^T x + d*||x||^2 + (1/2)*||x - v||^2:
\* t*a*xi + c + 2*d*x + (x - v) = 0
StationaryXi(x, v, t, a, c, d) ==
    [i \in 1..Len(x) |->
        RDiv(RSub(RSub(v[i], c), RMul(RAdd(R1, RMul(RInt(2), d)), x[i])), RMul(t, a))]
AffineY(x, a, b) == [i \in 1..Len(x) |-> RSub(RMul(a, x[i]), b)]
\* xi is a subgradient of the L1 norm at y
SubgradNorm1(xi, y) ==
    \A i \in 1..Len(y) :
        IF y[i] = R0 THEN RLe(RAbs(xi[i]), R1) ELSE xi[i] = RInt(RSign(y[i]))
\* xi is a subgradient of the L2 norm at y: y/||y||, or any point of the unit
\* ball at y = 0
SubgradNorm2(xi, y) ==
    IF \A i \in 1..Len(y) : y[i] = R0
    THEN RLe(Dot(xi, xi), R1)
    ELSE /\ Dot(xi, xi) = R1
         /\ RLt(R0, Dot(xi, y))
         /\ \A i, j \in 1..Len(y) : RMul(xi[i], y[j]) = RMul(xi[j], y[i])
\* xi is a subgradient of the infinity norm at y: a convex combination of the
\* signed unit vectors of the entries of largest magnitude, or any point of the
\* L1 unit ball at y = 0
SubgradNormInf(xi, y) ==
    IF \A i \in 1..Len(y) : y[i] = R0
    THEN RLe(SumSeq([i \in 1..Len(y) |-> RAbs(xi[i])]), R1)
    ELSE /\ SumSeq([i \in 1..Len(y) |-> RAbs(xi[i])]) = R1
         /\ \A i \in 1..Len(y) :
               /\ RLe(R0, RMul(xi[i], y[i]))
               /\ (\E j \in 1..Len(y) : RLt(RAbs(y[i]), RAbs(y[j]))) => xi[i] = R0
IsMinimizer(op, x, v, t, a, b, c, d) ==
    LET xi == StationaryXi(x, v, t, a, c, d)
        y == AffineY(x, a, b)
    IN  CASE op = "prox_norm1" -> SubgradNorm1(xi, y)
          [] op = "prox_norm2" -> SubgradNorm2(xi, y)
          [] op = "prox_norm_inf" -> SubgradNormInf(xi, y)

\* a finished, valid call of the L1, L2 or infinity-norm facade on a dense vector
DoneVectorCall ==
    /\ pc[1] = "done"
    /\ call[1].op \in {"prox_norm1", "prox_norm2", "prox_norm_inf"}
    /\ ~Invalid1
    /\ ~issparse(In1) /\ ndim(In1) = 1

C5_IdentityComposition ==
    (pc[1] = "done" /\ FacadeCall /\ RLt(R0, T1)
        /\ ScaleA = <<R1>> /\ OffsetB = R0 /\ LinC = R0 /\ QuadD = R0) =>
        res[1] = CASE call[1].op = "prox_norm1" -> prox_norm1_base(In1, T1)
                   [] call[1].op = "prox_norm2" -> prox_norm2_base(In1, T1)
                   [] call[1].op = "prox_norm_inf" -> prox_norm_inf_base(In1, T1)
                   [] call[1].op = "prox_norm_nuc" -> prox_norm_nuc_base(In1, T1)
                   [] call[1].op = "prox_group_lasso" -> prox_group_lasso_base(In1, T1)

\* prox_norm_inf with the default parameters has returned a nonzero vector
C5_Witness ==
    /\ pc[1] = "done"
    /\ call[1].op = "prox_norm_inf"
    /\ ScaleA = <<R1>> /\ OffsetB = R0 /\ LinC = R0 /\ QuadD = R0
    /\ res[1].kind = "ok"
    /\ ~IsZero(Out1)
    /\ Out1 # In1

\* C7 (as stated): every valid call of the L1, L2 and group-lasso facades
\* returns a container of the shape and representation of its input, dense or
\* sparse, and the nuclear-norm facade returns a dense result for a sparse input.
C7_SameRepresentation ==
    (pc[1] = "done" /\ FacadeCall /\ ~Invalid1) =>
        /\ call[1].op \in {"prox_norm1", "prox_norm2", "prox_group_lasso"} =>
              (res[1].kind = "ok" /\ Out1.shape = In1.shape /\ Out1.rep = In1.rep)
        /\ (call[1].op = "prox_norm_nuc" /\ issparse(In1)) =>
              (res[1].kind = "ok" /\ Out1.shape = In1.shape /\ Out1.rep = "dense")

\* C8 (as stated): a sparse input to the infinity-norm facade ends in an
\* unsupported-representation failure, or is converted to dense before the
\* projection; no result is computed silently.
C8_SparseRejected ==
    (pc[1] = "done" /\ call[1].op = "prox_norm_inf" /\ ~Invalid1 /\ issparse(In1)) =>
        \/ res[1] = Err("UnsupportedRepresentation")
        \/ (res[1].kind = "ok" /\ Out1.rep = "dense")

\* what the call of thread th returns when it runs alone on the containers
Alone(th) ==
    IF call[th].op \in FacadeOps
    THEN prox_scale(facade_base(call[th].op), heap[call[th].ref], call[th].t,
                    call[th].a, call[th].b, call[th].c, call[th].d)
    ELSE apply_base(call[th].op, heap[call[th].ref], call[th].t)

\* C10: every call leaves its input container and its parameters unchanged, and
\* under every interleaving of concurrent calls each call returns the result
\* it returns when run alone, the same at every repetition.
C10_Pure ==
    /\ [](\A th \in Threads : pc[th] = "done" => res[th] = Alone(th))
    /\ [][/\ heap' = heap
          /\ \A th \in Threads :
                (pc[th] # "idle" /\ pc'[th] # "idle") => call'[th] = call[th]]_vars

\* two calls on the same container are in flight: one has read it and run its
\* base operator, the other has returned
C10_Witness ==
    /\ pc[1] = "based" /\ pc[2] = "done"
    /\ call[1].ref = call[2].ref
    /\ call[1].op = "prox_group_lasso" /\ call[2].op = "prox_norm2_base"
    /\ res[2].kind = "ok"

====
